---------------------------- MODULE Spec2Model ----------------------------
(***************************************************************************)
(* Model of libdnf's package-signature trust subsystem                     *)
(* (libdnf/rpm/rpm_signature.cpp): RpmSignature::check_package_signature,  *)
(* RpmSignature::key_present, RpmSignature::import_key and KeyInfo.        *)
(*                                                                         *)
(* One caller runs one operation at a time; pc is its position inside the  *)
(* operation.  The rpm library (rpmts*, rpmcli*, rpmlog*, pgpReadPkts) is  *)
(* an oracle: whatever it may answer is a nondeterministic choice.         *)
(***************************************************************************)
EXTENDS FiniteSets, Integers, Sequences, TLC

VARIABLES
    pc,         \* position of the caller inside the running operation
    op,         \* the running operation, "none" when idle
    args,       \* the arguments and configuration the operation was called with
    logmask,    \* rpm's global log mask (set of enabled priorities)
    oldmask,    \* check_package_signature's local oldmask
    log_mutex,  \* the rpm log mutex a log guard holds: "free" or "held"
    rpm_logs,   \* the lines collected by RpmLogGuardStrings
    ts_ptr,     \* whether the operation holds an rpm transaction
    rc,         \* the return code of rpmcliVerifySignatures
    result,     \* how the operation ended: a returned value or a thrown error
    calls,      \* the engine calls the running operation has made
    rpmdb,      \* the headers of the rpm database under the install root
    fs,         \* the local files: path -> content
    keyinfo,    \* the KeyInfo object: absent, under construction or alive
    downloaded_key, \* the KeyInfo constructor's local TempFile: its path or "null"
    trans,      \* the Transaction object of the transaction history
    swdb,       \* the transactions saved in the history database: id -> record
    threads,    \* concurrent callers: thread -> its position, guard and log
    log_callback    \* the thread whose guard rpm's log callback feeds, or "none"

vars == <<pc, op, args, logmask, oldmask, log_mutex, rpm_logs, ts_ptr, rc, result, calls,
          rpmdb, fs, keyinfo, downloaded_key, trans, swdb, threads, log_callback>>

keyvars == <<rpmdb, fs, keyinfo, downloaded_key>>
txvars == <<trans, swdb>>
threadvars == <<threads, log_callback>>
\* the state of the single caller of the signature and key operations
callervars == <<pc, op, args, logmask, oldmask, log_mutex, rpm_logs, ts_ptr, rc, result, calls>>

(***************************************************************************)
(* Bounds of the model.                                                    *)
(***************************************************************************)
MaxLogLines == 3
MaxHeaders == 3
MaxKeyIdLen == 9
MaxTransactions == 2
MaxRuntimeAdds == 2
MaxThreads == 2
MaxEmitted == 2

(***************************************************************************)
(* std::string / std::string_view operations, on TLA+ strings.             *)
(***************************************************************************)
starts_with(s, prefix) ==
    /\ Len(s) >= Len(prefix)
    /\ SubSeq(s, 1, Len(prefix)) = prefix

ends_with(s, suffix) ==
    /\ Len(s) >= Len(suffix)
    /\ SubSeq(s, Len(s) - Len(suffix) + 1, Len(s)) = suffix

\* s.find(sub) != std::string::npos
contains(s, sub) ==
    \E i \in 1..(Len(s) - Len(sub) + 1) : SubSeq(s, i, i + Len(sub) - 1) = sub

\* s.substr(pos)
substr(s, pos) == SubSeq(s, pos + 1, Len(s))

(***************************************************************************)
(* rpm log priorities and masks.  A mask is the set of enabled priorities; *)
(* RPMLOG_UPTO(pri) enables every priority up to and including pri.        *)
(***************************************************************************)
RPMLOG_INFO == 6

RPMLOG_UPTO(pri) == 0..pri

\* masks the application may run with before a call: up to NOTICE (rpm's
\* default) and up to DEBUG
InitialMasks == {RPMLOG_UPTO(5), RPMLOG_UPTO(7)}

(***************************************************************************)
(* Inputs of check_package_signature.                                      *)
(***************************************************************************)
RepoTypes == {"COMMANDLINE", "AVAILABLE"}

PackagePaths == {"/a.rpm", "/b.rpm"}

\* lines rpm may log; for /b.rpm the lines that begin with /a.rpm are no headers
LogLines == {
    "/a.rpm:",
    "/a.rpm: sig: BAD",
    "/a.rpm: sig: NOTTRUSTED",
    "/a.rpm: sig: NOKEY",
    "/a.rpm: sig: NOTFOUND",
    " sig: BAD",
    " sig: BAD, key: NOKEY",
    " sig: NOKEY",
    " sig: NOTTRUSTED",
    " sig: NOTFOUND",
    " digest: OK",
    "error: unreadable" }

VerifyCodes == {"RPMRC_OK", "RPMRC_FAIL"}

RECURSIVE SeqsUpTo(_, _)
SeqsUpTo(S, n) ==
    IF n = 0 THEN {<<>>}
    ELSE LET shorter == SeqsUpTo(S, n - 1)
         IN  shorter \cup {Append(q, x) : q \in {t \in shorter : Len(t) = n - 1}, x \in S}

\* every log of at most MaxLogLines lines
Logs == SeqsUpTo(LogLines, MaxLogLines)

\* the logs of the key-management specification
KeyLogs == {<<>>, <<"/a.rpm:", " sig: NOKEY", " digest: OK">>}

(***************************************************************************)
(* Inputs of KeyInfo, key_present and import_key: key files.  A file's     *)
(* content is what the two parsers make of its bytes: infos is the answer  *)
(* of RepoGpgme::rawkey2infos, armor and pkt the answer of pgpReadPkts.    *)
(***************************************************************************)
KeyA == [id |-> "aaaaaaaa11111111", user_id |-> "A", fingerprint |-> "fpr-A"]
KeyB == [id |-> "bbbbbbbb11111111", user_id |-> "B", fingerprint |-> "fpr-B"]
KeyC == [id |-> "cccccccc22222222", user_id |-> "C", fingerprint |-> "fpr-C"]
KeyS == [id |-> "7654321", user_id |-> "S", fingerprint |-> "fpr-S"]

\* a packet: the id of the key it holds and its length in bytes
Packet(keyid, len) == [keyid |-> keyid, len |-> len]
NullPacket == [keyid |-> "", len |-> 0]

PubKey(infos, pkt) == [armor |-> "PGPARMOR_PUBKEY", infos |-> infos, pkt |-> pkt]
NotAKey == [armor |-> "PGPARMOR_NONE", infos |-> <<>>, pkt |-> NullPacket]
Signature == [armor |-> "PGPARMOR_SIGNATURE", infos |-> <<>>, pkt |-> Packet("", 70)]

InitialFiles ==
    [path \in {"/a.asc", "/b.asc", "/multi.asc", "/short.asc", "/noid.asc", "/notkey.txt"} |->
        CASE path = "/a.asc" -> PubKey(<<KeyA>>, Packet(KeyA.id, 400))
          [] path = "/b.asc" -> PubKey(<<KeyB>>, Packet(KeyB.id, 500))
          [] path = "/multi.asc" -> PubKey(<<KeyA, KeyC>>, Packet(KeyA.id, 900))
          [] path = "/short.asc" -> PubKey(<<KeyS>>, Packet(KeyS.id, 300))
          [] path = "/noid.asc" -> PubKey(<<>>, Packet(KeyC.id, 450))
          [] path = "/notkey.txt" -> NotAKey]

\* what a download may store in the temporary file
RemoteContents == {PubKey(<<KeyC>>, Packet(KeyC.id, 450)), Signature}

KeyRefs == {"/a.asc", "/b.asc", "/multi.asc", "/short.asc", "/noid.asc", "/notkey.txt",
            "/missing.asc", "file:///a.asc", "file:///notkey.txt", "https://h/key.asc"}

\* the path utils::fs::TempFile("rpmkey") creates
TempPath == "/tmp/rpmkey.XXXXXX"

UrlSchemes == {"file://", "http://", "ftp://", "https://"}

is_url(path) == \E scheme \in UrlSchemes : starts_with(path, scheme)

Header(name, version) == [name |-> name, version |-> version]

InitialDbs == {
    <<>>,
    <<Header("gpg-pubkey", "11111111"), Header("bash", "22222222")>> }

\* the version of the gpg-pubkey header rpm makes of a packet: the last 8
\* characters of the id of the packet's key
PacketVersion(pkt) ==
    IF Len(pkt.keyid) > 8 THEN substr(pkt.keyid, Len(pkt.keyid) - 8) ELSE pkt.keyid

(***************************************************************************)
(* Results and the record of engine calls.                                 *)
(***************************************************************************)
NoResult == [kind |-> "none"]
Returned(v) == [kind |-> "return", value |-> v]
Thrown(e, a) == [kind |-> "throw", error |-> e, arg |-> a]

NoCalls == [guard |-> 0, create |-> 0, verify |-> 0, import |-> <<>>]

\* a call of rpmtsImportPubkey(ts, pkt, pkt_len) and the engine's answer
ImportCall(key, code) == [pkt |-> key.pkt, pkt_len |-> key.pkt_len, rc |-> code]

NoArgs == [none |-> TRUE]

Absent == [state |-> "absent"]

\* a temporary file before anything is written to it
EmptyFile == [armor |-> "PGPARMOR_NONE", infos |-> <<>>, pkt |-> [keyid |-> "", len |-> 0]]

InstallRoot == "/"

(***************************************************************************)
(* check_package_signature: the policy gate.                               *)
(***************************************************************************)
\* mutant: the repository's flag is consulted whatever the origin
GpgCheckRequired_RepoFlagOnly(repo_type, localpkg_gpgcheck, gpgcheck) == gpgcheck

GpgCheckRequired(repo_type, localpkg_gpgcheck, gpgcheck) ==
    IF repo_type = "COMMANDLINE" THEN localpkg_gpgcheck ELSE gpgcheck

(***************************************************************************)
(* check_package_signature: the scan of the captured log.  flags is the    *)
(* record of the three locals missing_key, not_trusted, not_signed.        *)
(***************************************************************************)
NoFlags == [missing_key |-> FALSE, not_trusted |-> FALSE, not_signed |-> FALSE]

\* mutant: the suffixes are tested before ": BAD" is searched
ScanLine_SuffixFirst(line, path, flags) ==
    IF starts_with(line, path) THEN [ret |-> FALSE, flags |-> flags]
    ELSE IF ends_with(line, ": NOKEY")
        THEN [ret |-> FALSE, flags |-> [flags EXCEPT !.missing_key = TRUE]]
    ELSE IF ends_with(line, ": NOTTRUSTED")
        THEN [ret |-> FALSE, flags |-> [flags EXCEPT !.not_trusted = TRUE]]
    ELSE IF ends_with(line, ": NOTFOUND")
        THEN [ret |-> FALSE, flags |-> [flags EXCEPT !.not_signed = TRUE]]
    ELSE IF contains(line, ": BAD") THEN [ret |-> TRUE, flags |-> flags]
    ELSE IF ~ends_with(line, ": OK") THEN [ret |-> TRUE, flags |-> flags]
    ELSE [ret |-> FALSE, flags |-> flags]

\* mutant: a line with an unrecognized suffix is passed over
ScanLine_IgnoreUnknown(line, path, flags) ==
    IF starts_with(line, path) THEN [ret |-> FALSE, flags |-> flags]
    ELSE IF contains(line, ": BAD") THEN [ret |-> TRUE, flags |-> flags]
    ELSE IF ends_with(line, ": NOKEY")
        THEN [ret |-> FALSE, flags |-> [flags EXCEPT !.missing_key = TRUE]]
    ELSE IF ends_with(line, ": NOTTRUSTED")
        THEN [ret |-> FALSE, flags |-> [flags EXCEPT !.not_trusted = TRUE]]
    ELSE IF ends_with(line, ": NOTFOUND")
        THEN [ret |-> FALSE, flags |-> [flags EXCEPT !.not_signed = TRUE]]
    ELSE [ret |-> FALSE, flags |-> flags]

\* mutant: ": NOTFOUND" sets missing_key instead of not_signed
ScanLine_NotFoundAsMissing(line, path, flags) ==
    IF starts_with(line, path) THEN [ret |-> FALSE, flags |-> flags]
    ELSE IF contains(line, ": BAD") THEN [ret |-> TRUE, flags |-> flags]
    ELSE IF ends_with(line, ": NOKEY")
        THEN [ret |-> FALSE, flags |-> [flags EXCEPT !.missing_key = TRUE]]
    ELSE IF ends_with(line, ": NOTTRUSTED")
        THEN [ret |-> FALSE, flags |-> [flags EXCEPT !.not_trusted = TRUE]]
    ELSE IF ends_with(line, ": NOTFOUND")
        THEN [ret |-> FALSE, flags |-> [flags EXCEPT !.missing_key = TRUE]]
    ELSE IF ~ends_with(line, ": OK") THEN [ret |-> TRUE, flags |-> flags]
    ELSE [ret |-> FALSE, flags |-> flags]

\* mutant: ": BAD" is searched before the header test
ScanLine_BadBeforeHeader(line, path, flags) ==
    IF contains(line, ": BAD") THEN [ret |-> TRUE, flags |-> flags]
    ELSE IF starts_with(line, path) THEN [ret |-> FALSE, flags |-> flags]
    ELSE IF ends_with(line, ": NOKEY")
        THEN [ret |-> FALSE, flags |-> [flags EXCEPT !.missing_key = TRUE]]
    ELSE IF ends_with(line, ": NOTTRUSTED")
        THEN [ret |-> FALSE, flags |-> [flags EXCEPT !.not_trusted = TRUE]]
    ELSE IF ends_with(line, ": NOTFOUND")
        THEN [ret |-> FALSE, flags |-> [flags EXCEPT !.not_signed = TRUE]]
    ELSE IF ~ends_with(line, ": OK") THEN [ret |-> TRUE, flags |-> flags]
    ELSE [ret |-> FALSE, flags |-> flags]

\* one iteration of the loop: either the function returns FAILED, or the
\* loop goes on with the flags updated
ScanLine(line, path, flags) ==
    IF starts_with(line, path) THEN [ret |-> FALSE, flags |-> flags]
    ELSE IF contains(line, ": BAD") THEN [ret |-> TRUE, flags |-> flags]
    ELSE IF ends_with(line, ": NOKEY")
        THEN [ret |-> FALSE, flags |-> [flags EXCEPT !.missing_key = TRUE]]
    ELSE IF ends_with(line, ": NOTTRUSTED")
        THEN [ret |-> FALSE, flags |-> [flags EXCEPT !.not_trusted = TRUE]]
    ELSE IF ends_with(line, ": NOTFOUND")
        THEN [ret |-> FALSE, flags |-> [flags EXCEPT !.not_signed = TRUE]]
    ELSE IF ~ends_with(line, ": OK") THEN [ret |-> TRUE, flags |-> flags]
    ELSE [ret |-> FALSE, flags |-> flags]

\* mutant: without a finding the function falls back to OK
Precedence_FallbackOK(flags) ==
    IF flags.not_trusted THEN "FAILED_NOT_TRUSTED"
    ELSE IF flags.missing_key THEN "FAILED_KEY_MISSING"
    ELSE IF flags.not_signed THEN "FAILED_NOT_SIGNED"
    ELSE "OK"

\* mutant: missing_key is tested before not_trusted
Precedence_MissingFirst(flags) ==
    IF flags.missing_key THEN "FAILED_KEY_MISSING"
    ELSE IF flags.not_trusted THEN "FAILED_NOT_TRUSTED"
    ELSE IF flags.not_signed THEN "FAILED_NOT_SIGNED"
    ELSE "FAILED"

\* the code after the loop
Precedence(flags) ==
    IF flags.not_trusted THEN "FAILED_NOT_TRUSTED"
    ELSE IF flags.missing_key THEN "FAILED_KEY_MISSING"
    ELSE IF flags.not_signed THEN "FAILED_NOT_SIGNED"
    ELSE "FAILED"

RECURSIVE ScanLogs(_, _, _, _)
ScanLogs(logs, i, path, flags) ==
    IF i > Len(logs) THEN Precedence(flags)
    ELSE LET step == ScanLine(logs[i], path, flags)
         IN  IF step.ret THEN "FAILED" ELSE ScanLogs(logs, i + 1, path, step.flags)

\* mutant: the log is scanned whatever the engine answered
ClassifyResult_NoRcTest(code, logs, path) == ScanLogs(logs, 1, path, NoFlags)

\* the function's result once the mask is restored
ClassifyResult(code, logs, path) ==
    IF code = "RPMRC_OK" THEN "OK" ELSE ScanLogs(logs, 1, path, NoFlags)

(***************************************************************************)
(* KeyInfo and rpmdb_lookup.                                               *)
(***************************************************************************)
\* mutant: the suffix starts one character late
get_short_key_id_OffByOne(key_id) ==
    IF Len(key_id) > 8 THEN substr(key_id, Len(key_id) - 7) ELSE key_id

\* KeyInfo::get_short_key_id
get_short_key_id(key_id) ==
    IF Len(key_id) > 8 THEN substr(key_id, Len(key_id) - 8) ELSE key_id

\* the constructor's first statement: where the key is read from, and
\* whether it has to be downloaded there first
ResolveKeyPath(key_url) ==
    IF is_url(key_url)
    THEN IF starts_with(key_url, "file://")
         THEN [download |-> FALSE, key_path |-> substr(key_url, 7)]
         ELSE [download |-> TRUE, key_path |-> ""]
    ELSE [download |-> FALSE, key_path |-> key_url]

\* the loop over rawkey2infos: every info overwrites the identity
RECURSIVE LastIdentity(_, _, _)
LastIdentity(infos, i, identity) ==
    IF i > Len(infos) THEN identity
    ELSE LastIdentity(infos, i + 1, infos[i])

NoIdentity == [id |-> "", user_id |-> "", fingerprint |-> ""]

\* mutant: the iterator runs over every header
PubkeyHeaders_AllHeaders(db) == db

\* rpmtsInitIterator(ts, RPMDBI_NAME, "gpg-pubkey", 0): the headers of that name
PubkeyHeaders(db) == SelectSeq(db, LAMBDA h : h.name = "gpg-pubkey")

\* RpmSignature::rpmdb_lookup
RECURSIVE NextIterator(_, _, _)
NextIterator(mi, i, key_id) ==
    IF i > Len(mi) THEN FALSE
    ELSE IF mi[i].version = key_id THEN TRUE
    ELSE NextIterator(mi, i + 1, key_id)

\* mutant: the headers are compared with the full key id
rpmdb_lookup_FullId(db, key) ==
    NextIterator(PubkeyHeaders(db), 1, key.key_id)

rpmdb_lookup(db, key) ==
    NextIterator(PubkeyHeaders(db), 1, get_short_key_id(key.key_id))

\* the files left once the TempFile t is destroyed
RemoveTemp(files, t) ==
    IF t = "null" THEN files ELSE [p \in DOMAIN files \ {t} |-> files[p]]

\* no Transaction object has been made
NoTransaction == [state |-> "absent"]

\* no concurrent caller
NoThreads == <<>>

\* the engine's log callback collects into no caller's vector
NoCallback == [owner |-> 0]

(***************************************************************************)
(* Initial state: no operation runs, the log mutex is free, no KeyInfo     *)
(* object exists.                                                          *)
(***************************************************************************)
Init ==
    /\ pc = "idle"
    /\ op = "none"
    /\ args = NoArgs
    /\ logmask \in InitialMasks
    /\ oldmask = {}
    /\ log_mutex = "free"
    /\ rpm_logs = <<>>
    /\ ts_ptr = FALSE
    /\ rc = "none"
    /\ result = NoResult
    /\ calls = NoCalls
    /\ rpmdb \in InitialDbs
    /\ fs = InitialFiles
    /\ keyinfo = Absent
    /\ downloaded_key = "null"
    /\ trans = NoTransaction
    /\ swdb = <<>>
    /\ threads = NoThreads
    /\ log_callback = NoCallback

(***************************************************************************)
(* Steps shared by check_package_signature, key_present and import_key.    *)
(***************************************************************************)
\* RpmLogGuardStrings rpm_log_guard / RpmLogGuard rpm_log_guard{base}: takes
\* the rpm log mutex and starts collecting the log lines
AcquireLogGuard ==
    /\ pc = "log_guard"
    /\ log_mutex = "free"
    /\ log_mutex' = "held"
    /\ rpm_logs' = <<>>
    /\ calls' = [calls EXCEPT !.guard = @ + 1]
    /\ pc' = "create_transaction"
    /\ UNCHANGED <<op, args, logmask, oldmask, ts_ptr, rc, result>>
    /\ UNCHANGED keyvars
    /\ UNCHANGED <<txvars, threadvars>>

\* mutant: the answer of rpmtsSetRootDir is not tested
CreateTransaction_IgnoreFailure ==
    /\ pc = "create_transaction"
    /\ calls' = [calls EXCEPT !.create = @ + 1]
    /\ ts_ptr' = TRUE
    /\ pc' = CASE op = "check_package_signature" -> "set_mask"
               [] op = "key_present" -> "lookup"
               [] op = "import_key" -> "import"
    /\ UNCHANGED <<log_mutex, result>>
    /\ UNCHANGED <<op, args, logmask, oldmask, rpm_logs, rc>>
    /\ UNCHANGED keyvars
    /\ UNCHANGED <<txvars, threadvars>>

\* create_transaction(): rpmtsCreate and rpmtsSetRootDir; on failure the
\* exception unwinds the operation, which frees the transaction and the guard
CreateTransaction ==
    /\ pc = "create_transaction"
    /\ calls' = [calls EXCEPT !.create = @ + 1]
    /\ IF args.rootdir_ok
       THEN /\ ts_ptr' = TRUE
            /\ pc' = CASE op = "check_package_signature" -> "set_mask"
                       [] op = "key_present" -> "lookup"
                       [] op = "import_key" -> "import"
            /\ UNCHANGED <<log_mutex, result>>
       ELSE /\ ts_ptr' = FALSE
            /\ log_mutex' = "free"
            /\ result' = Thrown("SignatureCheckError", InstallRoot)
            /\ pc' = "done"
    /\ UNCHANGED <<op, args, logmask, oldmask, rpm_logs, rc>>
    /\ UNCHANGED keyvars
    /\ UNCHANGED <<txvars, threadvars>>

\* the caller takes the result; the operation's locals are gone
Finish ==
    /\ pc = "done"
    /\ pc' = "idle"
    /\ op' = "none"
    /\ args' = NoArgs
    /\ oldmask' = {}
    /\ rpm_logs' = <<>>
    /\ rc' = "none"
    /\ result' = NoResult
    /\ calls' = NoCalls
    /\ UNCHANGED <<logmask, log_mutex, ts_ptr>>
    /\ UNCHANGED keyvars
    /\ UNCHANGED <<txvars, threadvars>>

(***************************************************************************)
(* check_package_signature(pkg)                                            *)
(***************************************************************************)
\* the call and the policy gate
CheckPackageSignature ==
    /\ pc = "idle"
    /\ \E repo_type \in RepoTypes, localpkg_gpgcheck \in BOOLEAN, gpgcheck \in BOOLEAN,
          path \in PackagePaths, rootdir_ok \in BOOLEAN :
        /\ op' = "check_package_signature"
        /\ args' = [repo_type |-> repo_type, localpkg_gpgcheck |-> localpkg_gpgcheck,
                    gpgcheck |-> gpgcheck, path |-> path, rootdir_ok |-> rootdir_ok]
        /\ IF GpgCheckRequired(repo_type, localpkg_gpgcheck, gpgcheck)
           THEN /\ pc' = "log_guard"
                /\ result' = NoResult
           ELSE /\ pc' = "done"
                /\ result' = Returned("OK")
    /\ UNCHANGED <<logmask, oldmask, log_mutex, rpm_logs, ts_ptr, rc, calls>>
    /\ UNCHANGED keyvars
    /\ UNCHANGED <<txvars, threadvars>>

\* auto oldmask = rpmlogSetMask(RPMLOG_UPTO(RPMLOG_PRI(RPMLOG_INFO)))
SetMask ==
    /\ pc = "set_mask"
    /\ oldmask' = logmask
    /\ logmask' = RPMLOG_UPTO(RPMLOG_INFO)
    /\ pc' = "verify"
    /\ UNCHANGED <<op, args, log_mutex, rpm_logs, ts_ptr, rc, result, calls>>
    /\ UNCHANGED keyvars
    /\ UNCHANGED <<txvars, threadvars>>

\* rpmcliVerifySignatures(ts, {path}): the engine logs lines, which the
\* guard collects, and answers with a code
VerifySignatures(LogSet) ==
    /\ pc = "verify"
    /\ \E logs \in LogSet, code \in VerifyCodes :
        /\ rpm_logs' = logs
        /\ rc' = code
    /\ calls' = [calls EXCEPT !.verify = @ + 1]
    /\ pc' = "restore_mask"
    /\ UNCHANGED <<op, args, logmask, oldmask, log_mutex, ts_ptr, result>>
    /\ UNCHANGED keyvars
    /\ UNCHANGED <<txvars, threadvars>>

\* mutant: the saved mask is not set again
RestoreMask_Skip ==
    /\ pc = "restore_mask"
    /\ pc' = "classify"
    /\ UNCHANGED <<op, args, logmask, oldmask, log_mutex, rpm_logs, ts_ptr, rc, result, calls>>
    /\ UNCHANGED keyvars
    /\ UNCHANGED <<txvars, threadvars>>

\* rpmlogSetMask(oldmask)
RestoreMask ==
    /\ pc = "restore_mask"
    /\ logmask' = oldmask
    /\ pc' = "classify"
    /\ UNCHANGED <<op, args, oldmask, log_mutex, rpm_logs, ts_ptr, rc, result, calls>>
    /\ UNCHANGED keyvars
    /\ UNCHANGED <<txvars, threadvars>>

\* the rest of the function: the test of rc, the scan of the log and the
\* return, which frees the transaction and releases the guard
Classify ==
    /\ pc = "classify"
    /\ result' = Returned(ClassifyResult(rc, rpm_logs, args.path))
    /\ ts_ptr' = FALSE
    /\ log_mutex' = "free"
    /\ pc' = "done"
    /\ UNCHANGED <<op, args, logmask, oldmask, rpm_logs, rc, calls>>
    /\ UNCHANGED keyvars
    /\ UNCHANGED <<txvars, threadvars>>

(***************************************************************************)
(* KeyInfo::KeyInfo(key_url, base) and the object's destruction.           *)
(***************************************************************************)
\* the member initialisers and the choice of key_path; for a remote
\* reference the TempFile is created
KeyInfoConstruct ==
    /\ pc = "idle"
    /\ keyinfo = Absent
    /\ \E key_url \in KeyRefs :
        LET r == ResolveKeyPath(key_url)
        IN  /\ op' = "KeyInfo"
            /\ args' = [key_url |-> key_url]
            /\ keyinfo' = [state |-> "constructing", key_url |-> key_url,
                           key_path |-> r.key_path, key_id |-> "", user_id |-> "",
                           fingerprint |-> "", pkt |-> NullPacket, pkt_len |-> 0]
            /\ IF r.download
               THEN /\ TempPath \notin DOMAIN fs
                    /\ fs' = (TempPath :> EmptyFile) @@ fs
                    /\ downloaded_key' = TempPath
                    /\ pc' = "download"
               ELSE /\ pc' = "open_key_file"
                    /\ UNCHANGED <<fs, downloaded_key>>
    /\ UNCHANGED <<logmask, oldmask, log_mutex, rpm_logs, ts_ptr, rc, result, calls, rpmdb>>
    /\ UNCHANGED <<txvars, threadvars>>

\* downloader.add(key_url, path); downloader.download(true, true);
\* key_path = downloaded_key->get_path().  A failed download throws, and
\* the unwinding destroys the TempFile.
Download ==
    /\ pc = "download"
    /\ \/ \E content \in RemoteContents :
            /\ fs' = [fs EXCEPT ![downloaded_key] = content]
            /\ keyinfo' = [keyinfo EXCEPT !.key_path = downloaded_key]
            /\ pc' = "open_key_file"
            /\ UNCHANGED <<downloaded_key, result>>
       \/ /\ fs' = RemoveTemp(fs, downloaded_key)
          /\ downloaded_key' = "null"
          /\ keyinfo' = Absent
          /\ result' = Thrown("FileDownloadError", args.key_url)
          /\ pc' = "done"
    /\ UNCHANGED <<op, args, logmask, oldmask, log_mutex, rpm_logs, ts_ptr, rc, calls, rpmdb>>
    /\ UNCHANGED <<txvars, threadvars>>

\* mutant: the TempFile is not destroyed when the key file cannot be opened
OpenKeyFile_LeakTemp ==
    /\ pc = "open_key_file"
    /\ \E readable \in BOOLEAN :
        IF keyinfo.key_path \in DOMAIN fs /\ readable
        THEN LET identity == LastIdentity(fs[keyinfo.key_path].infos, 1, NoIdentity)
             IN  /\ keyinfo' = [keyinfo EXCEPT !.key_id = identity.id,
                                               !.user_id = identity.user_id,
                                               !.fingerprint = identity.fingerprint]
                 /\ pc' = "read_pkts"
                 /\ UNCHANGED <<fs, downloaded_key, result>>
        ELSE /\ fs' = fs
             /\ downloaded_key' = "null"
             /\ keyinfo' = Absent
             /\ result' = Thrown("FileSystemError", keyinfo.key_path)
             /\ pc' = "done"
    /\ UNCHANGED <<op, args, logmask, oldmask, log_mutex, rpm_logs, ts_ptr, rc, calls, rpmdb>>
    /\ UNCHANGED <<txvars, threadvars>>

\* utils::fs::File key_file(key_path, "r") and the loop over rawkey2infos;
\* the file may be missing, and a file that exists may still not be readable
OpenKeyFile ==
    /\ pc = "open_key_file"
    /\ \E readable \in BOOLEAN :
        IF keyinfo.key_path \in DOMAIN fs /\ readable
        THEN LET identity == LastIdentity(fs[keyinfo.key_path].infos, 1, NoIdentity)
             IN  /\ keyinfo' = [keyinfo EXCEPT !.key_id = identity.id,
                                               !.user_id = identity.user_id,
                                               !.fingerprint = identity.fingerprint]
                 /\ pc' = "read_pkts"
                 /\ UNCHANGED <<fs, downloaded_key, result>>
        ELSE /\ fs' = RemoveTemp(fs, downloaded_key)
             /\ downloaded_key' = "null"
             /\ keyinfo' = Absent
             /\ result' = Thrown("FileSystemError", keyinfo.key_path)
             /\ pc' = "done"
    /\ UNCHANGED <<op, args, logmask, oldmask, log_mutex, rpm_logs, ts_ptr, rc, calls, rpmdb>>
    /\ UNCHANGED <<txvars, threadvars>>

\* mutant: the error carries key_path instead of key_url
ReadPkts_ThrowKeyPath ==
    /\ pc = "read_pkts"
    /\ LET content == fs[keyinfo.key_path]
       IN  IF content.armor # "PGPARMOR_PUBKEY"
           THEN /\ keyinfo' = Absent
                /\ result' = Thrown("KeyImportError", keyinfo.key_path)
           ELSE /\ keyinfo' = [keyinfo EXCEPT !.state = "alive", !.pkt = content.pkt,
                                              !.pkt_len = content.pkt.len]
                /\ result' = Returned("KeyInfo")
    /\ fs' = RemoveTemp(fs, downloaded_key)
    /\ downloaded_key' = "null"
    /\ pc' = "done"
    /\ UNCHANGED <<op, args, logmask, oldmask, log_mutex, rpm_logs, ts_ptr, rc, calls, rpmdb>>
    /\ UNCHANGED <<txvars, threadvars>>

\* pgpReadPkts and the end of the constructor; leaving the constructor,
\* by return or by throw, destroys the local TempFile
ReadPkts ==
    /\ pc = "read_pkts"
    /\ LET content == fs[keyinfo.key_path]
       IN  IF content.armor # "PGPARMOR_PUBKEY"
           THEN /\ keyinfo' = Absent
                /\ result' = Thrown("KeyImportError", args.key_url)
           ELSE /\ keyinfo' = [keyinfo EXCEPT !.state = "alive", !.pkt = content.pkt,
                                              !.pkt_len = content.pkt.len]
                /\ result' = Returned("KeyInfo")
    /\ fs' = RemoveTemp(fs, downloaded_key)
    /\ downloaded_key' = "null"
    /\ pc' = "done"
    /\ UNCHANGED <<op, args, logmask, oldmask, log_mutex, rpm_logs, ts_ptr, rc, calls, rpmdb>>
    /\ UNCHANGED <<txvars, threadvars>>

\* ~KeyInfo
DestroyKeyInfo ==
    /\ pc = "idle"
    /\ keyinfo # Absent
    /\ keyinfo' = Absent
    /\ UNCHANGED <<pc, op, args, logmask, oldmask, log_mutex, rpm_logs, ts_ptr, rc, result,
                   calls, rpmdb, fs, downloaded_key>>
    /\ UNCHANGED <<txvars, threadvars>>

(***************************************************************************)
(* key_present(key)                                                        *)
(***************************************************************************)
KeyPresent ==
    /\ pc = "idle"
    /\ keyinfo # Absent
    /\ \E rootdir_ok \in BOOLEAN :
        args' = [key |-> keyinfo, rootdir_ok |-> rootdir_ok]
    /\ op' = "key_present"
    /\ pc' = "log_guard"
    /\ UNCHANGED <<logmask, oldmask, log_mutex, rpm_logs, ts_ptr, rc, result, calls>>
    /\ UNCHANGED keyvars
    /\ UNCHANGED <<txvars, threadvars>>

\* return rpmdb_lookup(ts_ptr, key)
Lookup ==
    /\ pc = "lookup"
    /\ result' = Returned(rpmdb_lookup(rpmdb, args.key))
    /\ ts_ptr' = FALSE
    /\ log_mutex' = "free"
    /\ pc' = "done"
    /\ UNCHANGED <<op, args, logmask, oldmask, rpm_logs, rc, calls>>
    /\ UNCHANGED keyvars
    /\ UNCHANGED <<txvars, threadvars>>

(***************************************************************************)
(* import_key(key)                                                         *)
(***************************************************************************)
ImportKey ==
    /\ pc = "idle"
    /\ keyinfo # Absent
    /\ \E rootdir_ok \in BOOLEAN :
        args' = [key |-> keyinfo, rootdir_ok |-> rootdir_ok]
    /\ op' = "import_key"
    /\ pc' = "log_guard"
    /\ UNCHANGED <<logmask, oldmask, log_mutex, rpm_logs, ts_ptr, rc, result, calls>>
    /\ UNCHANGED keyvars
    /\ UNCHANGED <<txvars, threadvars>>

\* mutant: the engine's import is called without the lookup
Import_NoLookup ==
    /\ pc = "import"
    /\ \/ /\ Len(rpmdb) < MaxHeaders
          /\ rpmdb' = Append(rpmdb, Header("gpg-pubkey", PacketVersion(args.key.pkt)))
          /\ calls' = [calls EXCEPT !.import = Append(@, ImportCall(args.key, "RPMRC_OK"))]
          /\ result' = Returned(TRUE)
       \/ /\ rpmdb' = rpmdb
          /\ calls' = [calls EXCEPT !.import = Append(@, ImportCall(args.key, "RPMRC_FAIL"))]
          /\ result' = Thrown("KeyImportError", args.key.key_url)
    /\ ts_ptr' = FALSE
    /\ log_mutex' = "free"
    /\ pc' = "done"
    /\ UNCHANGED <<op, args, logmask, oldmask, rpm_logs, rc, fs, keyinfo, downloaded_key>>
    /\ UNCHANGED <<txvars, threadvars>>

\* mutant: a rejected import is answered with false
Import_RejectReturnsFalse ==
    /\ pc = "import"
    /\ IF ~rpmdb_lookup(rpmdb, args.key)
       THEN \/ /\ Len(rpmdb) < MaxHeaders
               /\ rpmdb' = Append(rpmdb, Header("gpg-pubkey", PacketVersion(args.key.pkt)))
               /\ calls' = [calls EXCEPT !.import = Append(@, ImportCall(args.key, "RPMRC_OK"))]
               /\ result' = Returned(TRUE)
            \/ /\ rpmdb' = rpmdb
               /\ calls' = [calls EXCEPT !.import = Append(@, ImportCall(args.key, "RPMRC_FAIL"))]
               /\ result' = Returned(FALSE)
       ELSE /\ result' = Returned(FALSE)
            /\ UNCHANGED <<calls, rpmdb>>
    /\ ts_ptr' = FALSE
    /\ log_mutex' = "free"
    /\ pc' = "done"
    /\ UNCHANGED <<op, args, logmask, oldmask, rpm_logs, rc, fs, keyinfo, downloaded_key>>
    /\ UNCHANGED <<txvars, threadvars>>

\* the lookup and, for a key that is not found, rpmtsImportPubkey: the
\* engine accepts the packet and adds its gpg-pubkey header, or rejects it
Import ==
    /\ pc = "import"
    /\ IF ~rpmdb_lookup(rpmdb, args.key)
       THEN \/ /\ Len(rpmdb) < MaxHeaders
               /\ rpmdb' = Append(rpmdb, Header("gpg-pubkey", PacketVersion(args.key.pkt)))
               /\ calls' = [calls EXCEPT !.import = Append(@, ImportCall(args.key, "RPMRC_OK"))]
               /\ result' = Returned(TRUE)
            \/ /\ rpmdb' = rpmdb
               /\ calls' = [calls EXCEPT !.import = Append(@, ImportCall(args.key, "RPMRC_FAIL"))]
               /\ result' = Thrown("KeyImportError", args.key.key_url)
       ELSE /\ result' = Returned(FALSE)
            /\ UNCHANGED <<calls, rpmdb>>
    /\ ts_ptr' = FALSE
    /\ log_mutex' = "free"
    /\ pc' = "done"
    /\ UNCHANGED <<op, args, logmask, oldmask, rpm_logs, rc, fs, keyinfo, downloaded_key>>
    /\ UNCHANGED <<txvars, threadvars>>

(***************************************************************************)
(* SpecShortId: KeyInfo::get_short_key_id on KeyInfo objects of every key  *)
(* id of at most MaxKeyIdLen characters.                                   *)
(***************************************************************************)
IdChars == {"0", "f"}

RECURSIVE StringsUpTo(_, _)
StringsUpTo(C, n) ==
    IF n = 0 THEN {""}
    ELSE LET shorter == StringsUpTo(C, n - 1)
         IN  shorter \cup {t \o c : t \in {u \in shorter : Len(u) = n - 1}, c \in C}

KeyIds == StringsUpTo(IdChars, MaxKeyIdLen)

\* a KeyInfo object made of a key file whose last identity has the id key_id
KeyInfoOf(key_id) ==
    [state |-> "alive", key_url |-> "/key.asc", key_path |-> "/key.asc", key_id |-> key_id,
     user_id |-> "U", fingerprint |-> "fpr-U", pkt |-> Packet(key_id, 400), pkt_len |-> 400]

InitShortId ==
    /\ pc = "idle"
    /\ op = "none"
    /\ args = NoArgs
    /\ logmask = RPMLOG_UPTO(5)
    /\ oldmask = {}
    /\ log_mutex = "free"
    /\ rpm_logs = <<>>
    /\ ts_ptr = FALSE
    /\ rc = "none"
    /\ result = NoResult
    /\ calls = NoCalls
    /\ rpmdb = <<>>
    /\ fs = InitialFiles
    /\ keyinfo \in {KeyInfoOf(key_id) : key_id \in KeyIds}
    /\ downloaded_key = "null"
    /\ trans = NoTransaction
    /\ swdb = <<>>
    /\ threads = NoThreads
    /\ log_callback = NoCallback

\* key.get_short_key_id()
GetShortKeyId ==
    /\ pc = "idle"
    /\ keyinfo # Absent
    /\ op' = "get_short_key_id"
    /\ result' = Returned(get_short_key_id(keyinfo.key_id))
    /\ pc' = "done"
    /\ UNCHANGED <<args, logmask, oldmask, log_mutex, rpm_logs, ts_ptr, rc, calls>>
    /\ UNCHANGED <<keyvars, txvars, threadvars>>

NextShortId ==
    \/ GetShortKeyId
    \/ Finish

SpecShortId == InitShortId /\ [][NextShortId]_vars

(***************************************************************************)
(* SpecTransaction: the transaction-history object driven as the           *)
(* transaction tests drive it: setters, add_runtime_package, begin(), and  *)
(* loading a saved transaction by its id.  swdb is the history database,   *)
(* a saved transaction's id is its position in it.                         *)
(***************************************************************************)
DtValues == {1}
TransactionStates == {"UNKNOWN", "DONE"}
RuntimePackages == {"rpm-4.14.2-1.fc29.x86_64", "dnf-3.5.1-1.fc29.noarch"}
\* ids a caller passes to set_id
SpecifiedIds == {99}

\* Transaction trans(*conn): id 0 means not saved; added and begins record
\* the add_runtime_package calls and the successful begin() calls
NewTransactionObject ==
    [state |-> "alive", id |-> 0, dt_begin |-> 0, tstate |-> "UNKNOWN",
     runtime_packages |-> {}, added |-> <<>>, begins |-> 0, id_set |-> FALSE]

\* the values a saved transaction is compared on
Fields(t) ==
    [dt_begin |-> t.dt_begin, tstate |-> t.tstate, runtime_packages |-> t.runtime_packages]

TxFrame ==
    /\ UNCHANGED <<args, logmask, oldmask, log_mutex, rpm_logs, ts_ptr, rc, calls>>
    /\ UNCHANGED <<keyvars, threadvars>>

NewTransaction ==
    /\ pc = "idle"
    /\ trans = NoTransaction
    /\ trans' = NewTransactionObject
    /\ UNCHANGED <<pc, op, result, swdb>>
    /\ TxFrame

\* trans.set_dt_begin(v), trans.set_state(v)
SetField ==
    /\ pc = "idle"
    /\ trans # NoTransaction
    /\ \/ \E v \in DtValues : v # trans.dt_begin /\ trans' = [trans EXCEPT !.dt_begin = v]
       \/ \E v \in TransactionStates : v # trans.tstate /\ trans' = [trans EXCEPT !.tstate = v]
    /\ UNCHANGED <<pc, op, result, swdb>>
    /\ TxFrame

\* trans.set_id(v)
SetId ==
    /\ pc = "idle"
    /\ trans # NoTransaction
    /\ \E v \in SpecifiedIds :
           /\ v # trans.id
           /\ trans' = [trans EXCEPT !.id = v, !.id_set = TRUE]
    /\ UNCHANGED <<pc, op, result, swdb>>
    /\ TxFrame

\* trans.add_runtime_package(nevra): runtime packages are a set
AddRuntimePackage ==
    /\ pc = "idle"
    /\ trans # NoTransaction
    /\ Len(trans.added) < MaxRuntimeAdds
    /\ \E nevra \in RuntimePackages :
           trans' = [trans EXCEPT !.runtime_packages = @ \cup {nevra},
                                  !.added = Append(@, nevra)]
    /\ UNCHANGED <<pc, op, result, swdb>>
    /\ TxFrame

\* mutant: begin() saves a transaction that already has an id
Begin_NoIdCheck ==
    /\ pc = "idle"
    /\ trans # NoTransaction
    /\ Len(swdb) < MaxTransactions
    /\ op' = "begin"
    /\ pc' = "done"
    /\ swdb' = Append(swdb, Fields(trans))
    /\ trans' = [trans EXCEPT !.id = Len(swdb) + 1, !.begins = @ + 1]
    /\ result' = Returned(TRUE)
    /\ TxFrame

\* trans.begin(): throws when the transaction has an id, else inserts the
\* record and its runtime packages and takes the id of the new row
Begin ==
    /\ pc = "idle"
    /\ trans # NoTransaction
    /\ op' = "begin"
    /\ pc' = "done"
    /\ IF trans.id # 0
       THEN /\ result' = Thrown("std::runtime_error", trans.id)
            /\ UNCHANGED <<trans, swdb>>
       ELSE /\ Len(swdb) < MaxTransactions
            /\ swdb' = Append(swdb, Fields(trans))
            /\ trans' = [trans EXCEPT !.id = Len(swdb) + 1, !.begins = @ + 1]
            /\ result' = Returned(TRUE)
    /\ TxFrame

\* Transaction trans2(*conn, id): the values of the saved transaction
Load ==
    /\ pc = "idle"
    /\ \E id \in 1..Len(swdb) :
           /\ op' = "load"
           /\ result' = Returned([id |-> id] @@ swdb[id])
    /\ pc' = "done"
    /\ UNCHANGED <<trans, swdb>>
    /\ TxFrame

\* the Transaction object goes out of scope
DestroyTransaction ==
    /\ pc = "idle"
    /\ trans # NoTransaction
    /\ trans' = NoTransaction
    /\ UNCHANGED <<pc, op, result, swdb>>
    /\ TxFrame

\* an empty history database and no Transaction object
InitTransaction ==
    /\ pc = "idle"
    /\ op = "none"
    /\ args = NoArgs
    /\ logmask = RPMLOG_UPTO(5)
    /\ oldmask = {}
    /\ log_mutex = "free"
    /\ rpm_logs = <<>>
    /\ ts_ptr = FALSE
    /\ rc = "none"
    /\ result = NoResult
    /\ calls = NoCalls
    /\ rpmdb = <<>>
    /\ fs = InitialFiles
    /\ keyinfo = Absent
    /\ downloaded_key = "null"
    /\ trans = NoTransaction
    /\ swdb = <<>>
    /\ threads = NoThreads
    /\ log_callback = NoCallback

NextTransaction ==
    \/ NewTransaction
    \/ SetField
    \/ SetId
    \/ AddRuntimePackage
    \/ Begin
    \/ Load
    \/ DestroyTransaction
    \/ Finish

SpecTransaction == InitTransaction /\ [][NextTransaction]_vars

(***************************************************************************)
(* SpecThreads: MaxThreads threads call check_package_signature,           *)
(* key_present and import_key on one engine.  The log mutex, the log       *)
(* callback, the log mask and the rpm database are the engine's and are    *)
(* shared; every thread has its own locals.  The engine emits its lines    *)
(* one at a time to whatever callback is installed at that moment.         *)
(***************************************************************************)
ThreadIds == 1..MaxThreads

ThreadOps == {"check_package_signature", "key_present", "import_key"}

\* lines the engine logs while it works for a thread
ThreadLines == {" sig: NOKEY", " digest: OK"}

ThreadKey == KeyInfoOf(KeyA.id)

IdleThread ==
    [pc |-> "idle", op |-> "none", path |-> "", rootdir_ok |-> TRUE, holds |-> FALSE,
     oldmask |-> {}, rpm_logs |-> <<>>, emitted |-> <<>>, rc |-> "none", result |-> NoResult]

ThreadFrame ==
    /\ UNCHANGED <<pc, op, args, oldmask, rpm_logs, ts_ptr, rc, result, calls>>
    /\ UNCHANGED <<keyinfo, fs, downloaded_key, txvars>>

\* the guard's destructor: nothing is released by a thread that holds nothing
ReleaseLogGuard(t) ==
    /\ log_mutex' = IF threads[t].holds THEN "free" ELSE log_mutex
    /\ log_callback' = IF threads[t].holds THEN NoCallback ELSE log_callback

\* a thread calls one of the three operations; check_package_signature
\* returns at once when the policy asks for no check
TCall(t) ==
    /\ threads[t].pc = "idle"
    /\ \E o \in ThreadOps, rootdir_ok \in BOOLEAN, gpgcheck \in BOOLEAN :
           threads' = [threads EXCEPT ![t] =
               IF o = "check_package_signature" /\ ~GpgCheckRequired("AVAILABLE", FALSE, gpgcheck)
               THEN [IdleThread EXCEPT !.pc = "done", !.op = o, !.path = "/a.rpm",
                                       !.result = Returned("OK")]
               ELSE [IdleThread EXCEPT !.pc = "log_guard", !.op = o, !.path = "/a.rpm",
                                       !.rootdir_ok = rootdir_ok]]
    /\ UNCHANGED <<logmask, log_mutex, log_callback, rpmdb>>
    /\ ThreadFrame

\* mutant: key_present and import_key go on without the log mutex
TAcquireLogGuard_KeyOpsUnguarded(t) ==
    /\ threads[t].pc = "log_guard"
    /\ IF threads[t].op = "check_package_signature"
       THEN /\ log_mutex = "free"
            /\ log_mutex' = "held"
            /\ log_callback' = [owner |-> t]
            /\ threads' = [threads EXCEPT ![t].holds = TRUE, ![t].rpm_logs = <<>>,
                                          ![t].pc = "create_transaction"]
       ELSE /\ threads' = [threads EXCEPT ![t].pc = "create_transaction"]
            /\ UNCHANGED <<log_mutex, log_callback>>
    /\ UNCHANGED <<logmask, rpmdb>>
    /\ ThreadFrame

\* RpmLogGuardStrings rpm_log_guard / RpmLogGuard rpm_log_guard{base}: the
\* thread waits for the log mutex; the strings guard collects the engine's
\* lines into the thread's vector, the other guard sends them to the logger
TAcquireLogGuard(t) ==
    /\ threads[t].pc = "log_guard"
    /\ log_mutex = "free"
    /\ log_mutex' = "held"
    /\ log_callback' = IF threads[t].op = "check_package_signature"
                       THEN [owner |-> t] ELSE NoCallback
    /\ threads' = [threads EXCEPT ![t].holds = TRUE, ![t].rpm_logs = <<>>,
                                  ![t].pc = "create_transaction"]
    /\ UNCHANGED <<logmask, rpmdb>>
    /\ ThreadFrame

TCreateTransaction(t) ==
    /\ threads[t].pc = "create_transaction"
    /\ IF threads[t].rootdir_ok
       THEN /\ threads' = [threads EXCEPT ![t].pc =
                   IF threads[t].op = "check_package_signature" THEN "set_mask" ELSE "lookup"]
            /\ UNCHANGED <<log_mutex, log_callback>>
       ELSE /\ threads' = [threads EXCEPT ![t].pc = "done", ![t].holds = FALSE,
                                          ![t].result = Thrown("SignatureCheckError", InstallRoot)]
            /\ ReleaseLogGuard(t)
    /\ UNCHANGED <<logmask, rpmdb>>
    /\ ThreadFrame

TSetMask(t) ==
    /\ threads[t].pc = "set_mask"
    /\ threads' = [threads EXCEPT ![t].oldmask = logmask, ![t].pc = "verify"]
    /\ logmask' = RPMLOG_UPTO(RPMLOG_INFO)
    /\ UNCHANGED <<log_mutex, log_callback, rpmdb>>
    /\ ThreadFrame

\* the number of lines the threads from u on remember to have been emitted
RECURSIVE EmittedLines(_, _)
EmittedLines(ths, u) ==
    IF u > Len(ths) THEN 0 ELSE Len(ths[u].emitted) + EmittedLines(ths, u + 1)

\* the engine, at work for thread t, logs one line to the installed callback
TEmit(t) ==
    /\ threads[t].pc \in {"verify", "lookup"}
    /\ EmittedLines(threads, 1) < MaxEmitted
    /\ \E line \in ThreadLines :
           threads' = [u \in ThreadIds |->
               LET own == IF u = t THEN [threads[u] EXCEPT !.emitted = Append(@, line)]
                          ELSE threads[u]
               IN  IF u = log_callback.owner THEN [own EXCEPT !.rpm_logs = Append(@, line)]
                   ELSE own]
    /\ UNCHANGED <<logmask, log_mutex, log_callback, rpmdb>>
    /\ ThreadFrame

\* rpmcliVerifySignatures returns
TVerifyReturn(t) ==
    /\ threads[t].pc = "verify"
    /\ \E code \in VerifyCodes :
           threads' = [threads EXCEPT ![t].rc = code, ![t].pc = "restore_mask"]
    /\ UNCHANGED <<logmask, log_mutex, log_callback, rpmdb>>
    /\ ThreadFrame

TRestoreMask(t) ==
    /\ threads[t].pc = "restore_mask"
    /\ logmask' = threads[t].oldmask
    /\ threads' = [threads EXCEPT ![t].pc = "classify"]
    /\ UNCHANGED <<log_mutex, log_callback, rpmdb>>
    /\ ThreadFrame

TClassify(t) ==
    /\ threads[t].pc = "classify"
    /\ threads' = [threads EXCEPT ![t].pc = "done", ![t].holds = FALSE, ![t].oldmask = {},
           ![t].result = Returned(ClassifyResult(threads[t].rc, threads[t].rpm_logs,
                                                 threads[t].path))]
    /\ ReleaseLogGuard(t)
    /\ UNCHANGED <<logmask, rpmdb>>
    /\ ThreadFrame

\* the rest of key_present and of import_key
TLookup(t) ==
    /\ threads[t].pc = "lookup"
    /\ \E res \in {Returned(TRUE), Returned(FALSE), Thrown("KeyImportError", ThreadKey.key_url)} :
        /\ IF threads[t].op = "key_present"
           THEN /\ res = Returned(rpmdb_lookup(rpmdb, ThreadKey))
                /\ rpmdb' = rpmdb
           ELSE IF rpmdb_lookup(rpmdb, ThreadKey)
           THEN /\ res = Returned(FALSE)
                /\ rpmdb' = rpmdb
           ELSE \/ /\ res = Returned(TRUE)
                   /\ Len(rpmdb) < MaxHeaders
                   /\ rpmdb' = Append(rpmdb, Header("gpg-pubkey", PacketVersion(ThreadKey.pkt)))
                \/ /\ res.kind = "throw"
                   /\ rpmdb' = rpmdb
        /\ threads' = [threads EXCEPT ![t].pc = "done", ![t].holds = FALSE, ![t].result = res]
    /\ ReleaseLogGuard(t)
    /\ UNCHANGED logmask
    /\ ThreadFrame

TFinish(t) ==
    /\ threads[t].pc = "done"
    /\ threads' = [threads EXCEPT ![t] = IdleThread]
    /\ UNCHANGED <<logmask, log_mutex, log_callback, rpmdb>>
    /\ ThreadFrame

InitThreads ==
    /\ pc = "idle"
    /\ op = "none"
    /\ args = NoArgs
    /\ logmask = RPMLOG_UPTO(5)
    /\ oldmask = {}
    /\ log_mutex = "free"
    /\ rpm_logs = <<>>
    /\ ts_ptr = FALSE
    /\ rc = "none"
    /\ result = NoResult
    /\ calls = NoCalls
    /\ rpmdb = <<>>
    /\ fs = InitialFiles
    /\ keyinfo = Absent
    /\ downloaded_key = "null"
    /\ trans = NoTransaction
    /\ swdb = <<>>
    /\ threads = [t \in ThreadIds |-> IdleThread]
    /\ log_callback = NoCallback

NextThreads ==
    \E t \in ThreadIds :
        \/ TCall(t)
        \/ TAcquireLogGuard(t)
        \/ TCreateTransaction(t)
        \/ TSetMask(t)
        \/ TEmit(t)
        \/ TVerifyReturn(t)
        \/ TRestoreMask(t)
        \/ TClassify(t)
        \/ TLookup(t)
        \/ TFinish(t)

SpecThreads == InitThreads /\ [][NextThreads]_vars

(***************************************************************************)
(* Spec: signature checking, over every log of at most MaxLogLines lines.  *)
(***************************************************************************)
Next ==
    \/ CheckPackageSignature
    \/ AcquireLogGuard
    \/ CreateTransaction
    \/ SetMask
    \/ VerifySignatures(Logs)
    \/ RestoreMask
    \/ Classify
    \/ Finish

Spec == Init /\ [][Next]_vars

(***************************************************************************)
(* SpecKeys: key management next to signature checking.                    *)
(***************************************************************************)
NextKeys ==
    \/ KeyInfoConstruct
    \/ Download
    \/ OpenKeyFile
    \/ ReadPkts
    \/ DestroyKeyInfo
    \/ KeyPresent
    \/ Lookup
    \/ ImportKey
    \/ Import
    \/ CheckPackageSignature
    \/ AcquireLogGuard
    \/ CreateTransaction
    \/ SetMask
    \/ VerifySignatures(KeyLogs)
    \/ RestoreMask
    \/ Classify
    \/ Finish

SpecKeys == Init /\ [][NextKeys]_vars

(***************************************************************************)
(* SpecTrust: key management with key files whose packet holds the key of  *)
(* the file's last identity, so that the header the engine adds for an     *)
(* accepted import has the key's short id as its version.                  *)
(***************************************************************************)
TrustFiles ==
    [path \in {p \in DOMAIN InitialFiles :
                   LET content == InitialFiles[p]
                   IN  content.armor = "PGPARMOR_PUBKEY" =>
                           content.pkt.keyid = LastIdentity(content.infos, 1, NoIdentity).id}
        |-> InitialFiles[path]]

InitTrust ==
    /\ pc = "idle"
    /\ op = "none"
    /\ args = NoArgs
    /\ logmask \in InitialMasks
    /\ oldmask = {}
    /\ log_mutex = "free"
    /\ rpm_logs = <<>>
    /\ ts_ptr = FALSE
    /\ rc = "none"
    /\ result = NoResult
    /\ calls = NoCalls
    /\ rpmdb \in InitialDbs
    /\ fs = TrustFiles
    /\ keyinfo = Absent
    /\ downloaded_key = "null"
    /\ trans = NoTransaction
    /\ swdb = <<>>
    /\ threads = NoThreads
    /\ log_callback = NoCallback

SpecTrust == InitTrust /\ [][NextKeys]_vars

(***************************************************************************)
(* Properties of check_package_signature.                                  *)
(***************************************************************************)
\* check_package_signature has ended
CpsDone == pc = "done" /\ op = "check_package_signature"

\* the flag the package's origin selects is set
FlagSet ==
    \/ args.repo_type = "COMMANDLINE" /\ args.localpkg_gpgcheck
    \/ args.repo_type # "COMMANDLINE" /\ args.gpgcheck

\* check_package_signature has ended after the engine's verify answered code
CpsVerified(code) == CpsDone /\ FlagSet /\ calls.verify = 1 /\ rc = code

IsHeader(line) == starts_with(line, args.path)

RecognizedSuffix(line) ==
    \/ ends_with(line, ": OK")
    \/ ends_with(line, ": NOKEY")
    \/ ends_with(line, ": NOTTRUSTED")
    \/ ends_with(line, ": NOTFOUND")

LineNumbers == 1..Len(rpm_logs)

\* the lines of the captured log that are not headers
Findings == {rpm_logs[i] : i \in {j \in LineNumbers : ~IsHeader(rpm_logs[j])}}

\* C1: when checking is required and the engine reports non-success, a log
\* with a non-header line that contains ": BAD", at whatever position and
\* next to whatever other lines, gives FAILED.
C1_BadLineFails ==
    (CpsVerified("RPMRC_FAIL") /\ \E line \in Findings : contains(line, ": BAD"))
        => result = Returned("FAILED")

\* a ": BAD" finding between a ": NOKEY" and a ": NOTTRUSTED" finding
C1_Witness ==
    /\ CpsVerified("RPMRC_FAIL")
    /\ Len(rpm_logs) = 3
    /\ ~IsHeader(rpm_logs[1]) /\ ends_with(rpm_logs[1], ": NOKEY")
    /\ ~contains(rpm_logs[1], ": BAD")
    /\ ~IsHeader(rpm_logs[2]) /\ contains(rpm_logs[2], ": BAD")
    /\ ~IsHeader(rpm_logs[3]) /\ ends_with(rpm_logs[3], ": NOTTRUSTED")
    /\ result = Returned("FAILED")

\* C2: when the engine reports non-success, a log with a non-header line
\* that ends with none of ": OK", ": NOKEY", ": NOTTRUSTED", ": NOTFOUND"
\* gives FAILED, whatever flags the other lines set.
C2_UnrecognizedLineFails ==
    (CpsVerified("RPMRC_FAIL") /\ \E line \in Findings : ~RecognizedSuffix(line))
        => result = Returned("FAILED")

\* an unrecognized line without ": BAD" between a ": NOTTRUSTED" and a
\* ": NOKEY" finding
C2_Witness ==
    /\ CpsVerified("RPMRC_FAIL")
    /\ Len(rpm_logs) = 3
    /\ ~IsHeader(rpm_logs[1]) /\ ends_with(rpm_logs[1], ": NOTTRUSTED")
    /\ ~IsHeader(rpm_logs[2]) /\ ~RecognizedSuffix(rpm_logs[2])
    /\ ~contains(rpm_logs[2], ": BAD")
    /\ ~IsHeader(rpm_logs[3]) /\ ends_with(rpm_logs[3], ": NOKEY")
    /\ \A i \in LineNumbers : ~contains(rpm_logs[i], ": BAD")
    /\ result = Returned("FAILED")

FailureVariants == {"FAILED", "FAILED_NOT_TRUSTED", "FAILED_KEY_MISSING", "FAILED_NOT_SIGNED"}

\* C3: check_package_signature returns OK only if the selected flag is
\* false or the engine reported success; a non-success code gives a failure
\* variant for every log, and FAILED when every line is a header or ends in
\* ": OK" (the empty log included).
C3_OkOnlyIfNotRequiredOrSuccess ==
    /\ (CpsDone /\ result = Returned("OK")) => (~FlagSet \/ rc = "RPMRC_OK")
    /\ CpsVerified("RPMRC_FAIL") =>
        /\ result.kind = "return"
        /\ result.value \in FailureVariants
        /\ (\A line \in Findings : ends_with(line, ": OK")) => result = Returned("FAILED")

\* a non-success code with a log of one header and ": OK" lines only
C3_Witness ==
    /\ CpsVerified("RPMRC_FAIL")
    /\ Len(rpm_logs) = 3
    /\ IsHeader(rpm_logs[1])
    /\ ~IsHeader(rpm_logs[2]) /\ ends_with(rpm_logs[2], ": OK")
    /\ ~IsHeader(rpm_logs[3]) /\ ends_with(rpm_logs[3], ": OK")
    /\ result = Returned("FAILED")

\* C4: when checking is required and the engine's verify reports success,
\* the result is OK for every content of the captured log.
C4_SuccessIgnoresLog ==
    CpsVerified("RPMRC_OK") => result = Returned("OK")

\* success with a log that holds a ": BAD" finding and an unrecognized one
C4_Witness ==
    /\ CpsVerified("RPMRC_OK")
    /\ \E line \in Findings : contains(line, ": BAD")
    /\ \E line \in Findings : ~RecognizedSuffix(line) /\ ~contains(line, ": BAD")
    /\ result = Returned("OK")

\* C5 as stated: a non-success code and a log with a line ending in
\* ": NOTTRUSTED", a line ending in ": NOKEY" and no line containing ": BAD"
\* give FAILED_NOT_TRUSTED.
C5_Original ==
    ( /\ CpsVerified("RPMRC_FAIL")
      /\ \E i \in LineNumbers : ends_with(rpm_logs[i], ": NOTTRUSTED")
      /\ \E i \in LineNumbers : ends_with(rpm_logs[i], ": NOKEY")
      /\ \A i \in LineNumbers : ~contains(rpm_logs[i], ": BAD") )
        => result = Returned("FAILED_NOT_TRUSTED")

\* C5 amended: a non-success code and a log with a non-header line ending
\* in ": NOTTRUSTED" and a line ending in ": NOKEY", in which no non-header
\* line contains ": BAD" and every non-header line ends in a recognized
\* suffix, give FAILED_NOT_TRUSTED, in every order of the lines.
C5_NotTrustedPrecedence ==
    ( /\ CpsVerified("RPMRC_FAIL")
      /\ \E line \in Findings : ends_with(line, ": NOTTRUSTED")
      /\ \E i \in LineNumbers : ends_with(rpm_logs[i], ": NOKEY")
      /\ \A line \in Findings : ~contains(line, ": BAD") /\ RecognizedSuffix(line) )
        => result = Returned("FAILED_NOT_TRUSTED")

\* a ": NOKEY" finding before a ": NOTTRUSTED" finding
C5_Witness ==
    /\ CpsVerified("RPMRC_FAIL")
    /\ \E i, j \in LineNumbers :
        /\ i < j
        /\ ~IsHeader(rpm_logs[i]) /\ ends_with(rpm_logs[i], ": NOKEY")
        /\ ~IsHeader(rpm_logs[j]) /\ ends_with(rpm_logs[j], ": NOTTRUSTED")
    /\ \A line \in Findings : ~contains(line, ": BAD") /\ RecognizedSuffix(line)
    /\ result = Returned("FAILED_NOT_TRUSTED")

\* the reference classification of a set of findings
Reference(findings) ==
    IF \E line \in findings : ends_with(line, ": NOTTRUSTED") THEN "FAILED_NOT_TRUSTED"
    ELSE IF \E line \in findings : ends_with(line, ": NOKEY") THEN "FAILED_KEY_MISSING"
    ELSE IF \E line \in findings : ends_with(line, ": NOTFOUND") THEN "FAILED_NOT_SIGNED"
    ELSE "FAILED"

\* C6: when the engine reports non-success and every non-header line ends
\* in a recognized suffix and none of them contains ": BAD", the result is
\* the reference classification of the set of non-header lines: it depends
\* neither on their order nor on their multiplicity.
C6_MatchesReference ==
    ( /\ CpsVerified("RPMRC_FAIL")
      /\ \A line \in Findings : RecognizedSuffix(line) /\ ~contains(line, ": BAD") )
        => result = Returned(Reference(Findings))

\* twice the same ": NOTFOUND" finding and nothing stronger
C6_Witness ==
    /\ CpsVerified("RPMRC_FAIL")
    /\ Len(rpm_logs) = 3
    /\ rpm_logs[1] = rpm_logs[3]
    /\ ~IsHeader(rpm_logs[1]) /\ ends_with(rpm_logs[1], ": NOTFOUND")
    /\ ends_with(rpm_logs[2], ": OK")
    /\ result = Returned("FAILED_NOT_SIGNED")

\* C7: the gate selects localpkg_gpgcheck for a command-line package and
\* the repository's gpgcheck otherwise; when the selected flag is false the
\* function returns OK and has neither taken the log guard, nor created a
\* transaction, nor called the engine's verify; when it is set, the other
\* flag does not short-circuit the check.
C7_PolicyGate ==
    /\ (op = "check_package_signature" /\ ~FlagSet) =>
        /\ pc = "done"
        /\ result = Returned("OK")
        /\ calls = NoCalls
        /\ log_mutex = "free"
        /\ ~ts_ptr
    /\ (CpsDone /\ FlagSet) => calls.guard = 1

\* a command-line package with localpkg_gpgcheck off, the repository's
\* gpgcheck on and an install root that cannot be applied
C7_Witness ==
    /\ CpsDone
    /\ args.repo_type = "COMMANDLINE"
    /\ ~args.localpkg_gpgcheck
    /\ args.gpgcheck
    /\ ~args.rootdir_ok
    /\ result = Returned("OK")

(***************************************************************************)
(* Properties of key_present, import_key and KeyInfo.                      *)
(***************************************************************************)
\* the last 8 characters of a key id, the whole id when it has fewer
ShortId(key_id) ==
    IF Len(key_id) >= 8 THEN SubSeq(key_id, Len(key_id) - 7, Len(key_id)) ELSE key_id

\* the database holds a "gpg-pubkey" header of that version
HasPubkey(db, version) ==
    \E i \in 1..Len(db) : db[i].name = "gpg-pubkey" /\ db[i].version = version

\* C8: import_key(key), once its transaction is created: if the database
\* holds a "gpg-pubkey" header whose version is the key's short id, the
\* engine's import is not called, the database is unchanged and the result
\* is false; otherwise the engine's import is called exactly once, with the
\* key's packet and its length, and when the engine accepts the result is
\* true.
C8_ImportIfAbsent ==
    [][ /\ (op = "import_key" /\ pc # "import") =>
            (calls'.import = <<>> \/ calls'.import = calls.import) /\ rpmdb' = rpmdb
        /\ (op = "import_key" /\ pc = "import") =>
            IF HasPubkey(rpmdb, ShortId(args.key.key_id))
            THEN /\ calls'.import = <<>>
                 /\ rpmdb' = rpmdb
                 /\ result' = Returned(FALSE)
            ELSE /\ Len(calls'.import) = 1
                 /\ calls'.import[1].pkt = args.key.pkt
                 /\ calls'.import[1].pkt_len = args.key.pkt_len
                 /\ calls'.import[1].rc = "RPMRC_OK" => result' = Returned(TRUE)
      ]_vars

\* a key that was not in a non-empty database has been imported
C8_Witness ==
    /\ pc = "done"
    /\ op = "import_key"
    /\ Len(calls.import) = 1
    /\ calls.import[1].rc = "RPMRC_OK"
    /\ result = Returned(TRUE)
    /\ Len(rpmdb) > 1

\* C9: key_present(key) returns true if and only if the database holds a
\* "gpg-pubkey" header whose version is the key's short id, so the answer
\* depends on the key through its short id only; key_present never changes
\* the database.
C9_KeyPresent ==
    [][ /\ (op = "key_present" \/ op' = "key_present") => rpmdb' = rpmdb
        /\ (op = "key_present" /\ pc = "lookup") =>
            result' = Returned(HasPubkey(rpmdb, ShortId(args.key.key_id)))
      ]_vars

\* key B is found through the header of its short id, which it shares with
\* key A, next to a header of another name
C9_Witness ==
    /\ pc = "done"
    /\ op = "key_present"
    /\ args.key.key_id = KeyB.id
    /\ \E i \in 1..Len(rpmdb) : rpmdb[i].name # "gpg-pubkey"
    /\ result = Returned(TRUE)

\* C10: when the file the reference resolves to is not read as an armored
\* public key, the constructor throws KeyImportError with the reference as
\* the caller gave it (not the path it was resolved to), and no KeyInfo
\* object exists afterwards.
C10_NotArmoredKey ==
    [][ (op = "KeyInfo" /\ pc = "read_pkts"
            /\ fs[keyinfo.key_path].armor # "PGPARMOR_PUBKEY") =>
            /\ result' = Thrown("KeyImportError", args.key_url)
            /\ keyinfo' = Absent
      ]_vars

\* a remote reference whose download is no armored public key: the error
\* carries the URL
C10_Witness ==
    /\ pc = "done"
    /\ op = "KeyInfo"
    /\ is_url(args.key_url) /\ ~starts_with(args.key_url, "file://")
    /\ result = Thrown("KeyImportError", args.key_url)
    /\ keyinfo = Absent

\* C11: for a remote reference the temporary file of the download is gone
\* once the KeyInfo object is destroyed or its construction has failed,
\* whether the download, the opening of the key file or the reading of the
\* packet failed: while no KeyInfo object exists or is being constructed,
\* no temporary file exists and no TempFile is held.
C11_NoTempFileLeft ==
    keyinfo = Absent => (TempPath \notin DOMAIN fs /\ downloaded_key = "null")

\* the construction from a remote reference failed after the download, at
\* the opening of the downloaded file
C11_Witness ==
    /\ pc = "done"
    /\ op = "KeyInfo"
    /\ is_url(args.key_url) /\ ~starts_with(args.key_url, "file://")
    /\ result = Thrown("FileSystemError", TempPath)
    /\ keyinfo = Absent
    /\ TempPath \notin DOMAIN fs

\* C12: get_short_key_id returns the last 8 characters of a key id of 8 or
\* more characters and a shorter key id (the empty one included) unchanged;
\* the result is the suffix of key_id of length min(8, length of key_id).
C12_ShortKeyId ==
    (pc = "done" /\ op = "get_short_key_id") =>
        LET key_id == keyinfo.key_id
            n == Len(key_id)
        IN  /\ result.kind = "return"
            /\ n >= 8 => result.value = SubSeq(key_id, n - 7, n)
            /\ n < 8 => result.value = key_id
            /\ Len(result.value) = (IF n < 8 THEN n ELSE 8)
            /\ ends_with(key_id, result.value)

\* a key id of 9 characters, whose first character is cut off
C12_Witness ==
    /\ pc = "done"
    /\ op = "get_short_key_id"
    /\ Len(keyinfo.key_id) = 9
    /\ result = Returned(SubSeq(keyinfo.key_id, 2, 9))
    /\ result.value # keyinfo.key_id

\* the distinct elements of a sequence
Range(seq) == {seq[i] : i \in 1..Len(seq)}

\* C13: begin() succeeds only on a transaction without an id: a second begin()
\* and a begin() after set_id throw std::runtime_error and save nothing; a
\* successful begin() assigns an id under which the same field values are
\* loaded, each runtime package stored once however often it was added.
C13_BeginOnce ==
    [][(pc = "idle" /\ pc' = "done" /\ op' = "begin") =>
           IF trans.begins > 0 \/ trans.id_set
           THEN /\ result' = Thrown("std::runtime_error", trans.id)
                /\ swdb' = swdb
                /\ trans' = trans
           ELSE /\ result'.kind = "return"
                /\ trans'.id \in 1..Len(swdb') /\ trans'.id \notin 1..Len(swdb)
                /\ swdb'[trans'.id] = Fields(trans)
                /\ Fields(trans') = Fields(trans)
                /\ swdb'[trans'.id].runtime_packages = Range(trans.added)
                /\ SubSeq(swdb', 1, Len(swdb)) = swdb]_vars

\* the second begin() of a saved transaction that was given a package twice
C13_Witness ==
    /\ pc = "done"
    /\ op = "begin"
    /\ result.kind = "throw"
    /\ trans.begins = 1
    /\ ~trans.id_set
    /\ Len(trans.added) = 2
    /\ Cardinality(swdb[trans.id].runtime_packages) = 1

\* the log without the lines that begin with the package path
WithoutHeaders(logs, path) == SelectSeq(logs, LAMBDA line : ~starts_with(line, path))

\* C14: with a non-success engine code a captured line that begins with the
\* package path is never a finding: the result is the result of the same log
\* with every such line removed, whatever the line contains or ends in.
C14_HeadersAreNotFindings ==
    CpsVerified("RPMRC_FAIL") =>
        result = Returned(ScanLogs(WithoutHeaders(rpm_logs, args.path), 1, args.path, NoFlags))

\* a header with ": BAD" and a header ending in ": NOKEY" around a finding
C14_Witness ==
    /\ CpsVerified("RPMRC_FAIL")
    /\ Len(rpm_logs) = 3
    /\ IsHeader(rpm_logs[1]) /\ contains(rpm_logs[1], ": BAD")
    /\ ~IsHeader(rpm_logs[2]) /\ ends_with(rpm_logs[2], ": NOTFOUND")
    /\ IsHeader(rpm_logs[3]) /\ ends_with(rpm_logs[3], ": NOKEY")
    /\ result = Returned("FAILED_NOT_SIGNED")

\* the positions between rpmlogSetMask(RPMLOG_UPTO(RPMLOG_INFO)) and
\* rpmlogSetMask(oldmask)
MaskRegion == {"verify", "restore_mask"}

\* C15: the engine's log mask after check_package_signature is the mask
\* before the call on every exit path: no step outside the verification
\* changes the mask, the step that enters it saves the mask and sets the
\* informational one, which stays until the step that leaves it sets the
\* saved mask again.
C15_MaskRestored ==
    [][/\ (pc \notin MaskRegion /\ pc' \notin MaskRegion) => logmask' = logmask
       /\ (pc \notin MaskRegion /\ pc' \in MaskRegion) =>
              (oldmask' = logmask /\ logmask' = RPMLOG_UPTO(RPMLOG_INFO))
       /\ (pc \in MaskRegion /\ pc' \in MaskRegion) =>
              (oldmask' = oldmask /\ logmask' = logmask)
       /\ (pc \in MaskRegion /\ pc' \notin MaskRegion) => logmask' = oldmask]_vars

\* a failure classification returned with the debug mask back in place
C15_Witness ==
    /\ CpsVerified("RPMRC_FAIL")
    /\ result = Returned("FAILED_KEY_MISSING")
    /\ oldmask = RPMLOG_UPTO(7)
    /\ logmask = RPMLOG_UPTO(7)

\* the positions of a call between the construction of its log guard and
\* its end
GuardedPcs == {"create_transaction", "set_mask", "verify", "restore_mask", "classify", "lookup"}

\* C16: of the threads that call check_package_signature, key_present or
\* import_key at most one is past the construction of its log guard, and it
\* holds the log mutex until its call ends; the lines a
\* check_package_signature call has captured, and classifies, are exactly the
\* lines the engine emitted for that call.
C16_ExclusiveCapture ==
    /\ Cardinality({t \in ThreadIds : threads[t].pc \in GuardedPcs}) <= 1
    /\ \A t \in ThreadIds :
        /\ threads[t].pc \in GuardedPcs => (threads[t].holds /\ log_mutex = "held")
        /\ threads[t].pc \in {"idle", "log_guard", "done"} => ~threads[t].holds
        /\ threads[t].op = "check_package_signature" =>
               /\ threads[t].rpm_logs = threads[t].emitted
               /\ (threads[t].pc = "done" /\ threads[t].rc # "none") =>
                      threads[t].result = Returned(ClassifyResult(threads[t].rc,
                                              threads[t].emitted, threads[t].path))

\* a check_package_signature call about to classify its two lines while
\* another thread's key_present waits for the log mutex
C16_Witness ==
    \E t, u \in ThreadIds :
        /\ t # u
        /\ threads[t].op = "check_package_signature"
        /\ threads[t].pc = "classify"
        /\ threads[t].rc = "RPMRC_FAIL"
        /\ Len(threads[t].emitted) = 2
        /\ threads[u].op = "key_present"
        /\ threads[u].pc = "log_guard"

\* the operations that create an engine session
SessionOps == {"check_package_signature", "key_present", "import_key"}

\* C17: when the install root cannot be set on the new engine session,
\* check_package_signature (checking required), key_present and import_key
\* end with SignatureCheckError: the engine's verify and import are not
\* called, the database is unchanged, the session is freed and the log mutex
\* is free again, as it is whenever no operation runs; an engine verify that
\* answers non-success ends in a returned classification, never in an error.
C17_RootFailure ==
    [][/\ (pc = "create_transaction" /\ ~args.rootdir_ok) =>
              /\ pc' = "done"
              /\ result' = Thrown("SignatureCheckError", InstallRoot)
              /\ calls'.verify = 0 /\ calls'.import = <<>>
              /\ rpmdb' = rpmdb
              /\ ~ts_ptr'
              /\ log_mutex' = "free"
       /\ (pc' = "done" /\ op' \in SessionOps /\ ~args'.rootdir_ok
               /\ (op' = "check_package_signature" => FlagSet')) =>
              result' = Thrown("SignatureCheckError", InstallRoot)
       /\ pc' \in {"idle", "done"} => log_mutex' = "free"
       /\ (pc' = "done" /\ op' = "check_package_signature" /\ rc' = "RPMRC_FAIL") =>
              (result'.kind = "return" /\ result'.value # "OK")]_vars

\* import_key of a key that is not trusted stops at the install root
C17_Witness ==
    /\ pc = "done"
    /\ op = "import_key"
    /\ ~args.rootdir_ok
    /\ ~HasPubkey(rpmdb, ShortId(args.key.key_id))
    /\ calls.create = 1
    /\ calls.import = <<>>
    /\ result = Thrown("SignatureCheckError", InstallRoot)
    /\ log_mutex = "free"

\* the key of the running operation has no "gpg-pubkey" header
Untrusted == ~HasPubkey(rpmdb, ShortId(args.key.key_id))

\* C18: when import_key finds the key not trusted and the engine rejects the
\* import, the call ends with KeyImportError carrying the key's original
\* reference and the database is unchanged, so the key stays not trusted;
\* and for a key that is not trusted key_present answers false and
\* import_key calls the engine's import.
C18_RejectedImport ==
    [][/\ (op = "import_key" /\ pc = "import" /\ Untrusted
               /\ calls'.import # <<>> /\ calls'.import[1].rc # "RPMRC_OK") =>
              /\ result' = Thrown("KeyImportError", args.key.key_url)
              /\ rpmdb' = rpmdb
              /\ Untrusted'
       /\ (op = "key_present" /\ pc = "lookup" /\ Untrusted) => result' = Returned(FALSE)
       /\ (op = "import_key" /\ pc = "import" /\ Untrusted) => Len(calls'.import) = 1]_vars

\* the rejected key was downloaded: the error names the URL, not the file
C18_Witness ==
    /\ pc = "done"
    /\ op = "import_key"
    /\ Len(calls.import) = 1
    /\ calls.import[1].rc = "RPMRC_FAIL"
    /\ args.key.key_url = "https://h/key.asc"
    /\ args.key.key_path # args.key.key_url
    /\ result = Thrown("KeyImportError", "https://h/key.asc")
    /\ Untrusted

\* C19: for a KeyInfo constructed from a remote URL the temporary file of
\* the download exists at the object's resolved path for as long as the
\* object lives.
C19_TempOwnedForLifetime ==
    (keyinfo.state = "alive" /\ keyinfo.key_path = TempPath) => TempPath \in DOMAIN fs

\* the key of the running operation has a "gpg-pubkey" header
Trusted == HasPubkey(rpmdb, ShortId(args.key.key_id))

\* no two "gpg-pubkey" headers of the database have the same version
OnePerShortId(db) ==
    \A i, j \in 1..Len(db) :
        (db[i].name = "gpg-pubkey" /\ db[j].name = "gpg-pubkey" /\ db[i].version = db[j].version)
            => i = j

\* C20: with an engine that adds, for an accepted import, a header whose
\* version is the key's short id: the database changes only by an import_key
\* that returns true, which appends one header to it; after that the key's
\* short id is trusted; for a trusted short id key_present answers true and
\* import_key answers false without an engine call; so the database never
\* holds two keys of one short id.
C20_TrustMonotone ==
    [][/\ rpmdb' # rpmdb =>
              /\ op = "import_key" /\ pc = "import"
              /\ result' = Returned(TRUE)
              /\ Len(rpmdb') = Len(rpmdb) + 1
              /\ SubSeq(rpmdb', 1, Len(rpmdb)) = rpmdb
       /\ (op = "import_key" /\ pc = "import" /\ result' = Returned(TRUE)) =>
              (~Trusted /\ Trusted')
       /\ (op = "key_present" /\ pc = "lookup" /\ Trusted) => result' = Returned(TRUE)
       /\ (op = "import_key" /\ pc = "import" /\ Trusted) =>
              (result' = Returned(FALSE) /\ calls'.import = <<>> /\ rpmdb' = rpmdb)
       /\ OnePerShortId(rpmdb')]_vars

\* key A was imported into the empty database; import_key of key B, of the
\* same short id, answers false without an engine call
C20_Witness ==
    /\ pc = "done"
    /\ op = "import_key"
    /\ args.key.key_id = KeyB.id
    /\ rpmdb = <<Header("gpg-pubkey", ShortId(KeyA.id))>>
    /\ calls.import = <<>>
    /\ result = Returned(FALSE)

=============================================================================
